---- MODULE Spec2Model ----
(***************************************************************************)
(* half_duplex_wire: a bit-banged, single-wire, half-duplex byte link.     *)
(*                                                                         *)
(* Time is counted in delay units: one call of delay.delay_ms(self.delay)  *)
(* is one unit, and the action Tick lets one unit pass for every endpoint  *)
(* that is inside such a call.  Everything else the code does takes no     *)
(* time.  The line is pulled high: it reads low exactly when somebody      *)
(* drives it low.                                                          *)
(*                                                                         *)
(* Every endpoint (a HalfDuplexWire value together with the call that is   *)
(* running on it) is one record of the variable ep.  The handlers are      *)
(* written as functions from the endpoint's record to its next record, so  *)
(* that a handler's helper calls (bring_back_pin, skip_phase, ...) compose *)
(* the way they do in the source.                                          *)
(***************************************************************************)
EXTENDS Integers, Sequences, FiniteSets, TLC

VARIABLES ep, ext, envLeft

vars == <<ep, ext, envLeft>>

\* ------------------------------------------------------------------ bounds

\* how often the external peer of specification Spec may change its drive
MaxEnv == 6

\* the largest size_of::<U>() that get is called with in the model
MaxSize == 2

\* ------------------------------------------------------- program constants

BUF_SIZE == 8

\* skip_phase arguments of write and read, and the initial mask
BusyGap == 4
StartLow == 4
OneHigh == 4
OneLow == 4
ZeroHigh == 2
ZeroLow == 6
SampleGap == 3
TopBit == 128
NBits == 8

Procs == {1, 2}

Byte == 0 .. 255

\* the bytes write is called with under Spec (SpecRT writes every byte)
SpecBytes == {0, 160, 255}

\* the bytes write is called with under SpecLink and SpecBus
LinkBytes == {0, 165, 255}

\* ----------------------------------------------------------- u8 arithmetic

RECURSIVE BitAnd(_, _)
BitAnd(a, b) ==
  IF a = 0 \/ b = 0 THEN 0
  ELSE 2 * BitAnd(a \div 2, b \div 2) + (IF a % 2 = 1 /\ b % 2 = 1 THEN 1 ELSE 0)

RECURSIVE BitOr(_, _)
BitOr(a, b) ==
  IF a = 0 THEN b
  ELSE IF b = 0 THEN a
  ELSE 2 * BitOr(a \div 2, b \div 2) + (IF a % 2 = 1 \/ b % 2 = 1 THEN 1 ELSE 0)

\* a shift that keeps the bit a u8 drops
Shl8_wide(x) == x * 2

Shl8(x) == (x * 2) % 256

Shr8(x) == x \div 2

BoolU8(b) == IF b THEN 1 ELSE 0

\* ------------------------------------------------------------------ the line

\* the level of the shared line when the endpoints are E and the external
\* peer's drive is x
Level(E, x) ==
  IF x = "low" \/ (\E e \in Procs : E[e].drive = "low") THEN "low" ELSE "high"

LineNow == Level(ep, ext)

\* what InputPin::is_high / is_low can give endpoint record s now
PinReads(s) == IF s.fallible THEN {LineNow, "err"} ELSE {LineNow}

\* what OutputPin::set_high / set_low can give: TRUE is Ok
PinWrites(s) == IF s.fallible THEN {TRUE, FALSE} ELSE {TRUE}

\* ------------------------------------------------------------- an endpoint

ZeroBuf == [i \in 0 .. (BUF_SIZE - 1) |-> 0]

NoPoll == [prev |-> "none", cur |-> "none", edge |-> FALSE]

\* HalfDuplexWire::new
new(canFail) ==
  [ pin      |-> "Some",      \* self.pin: Option<I>
    loc      |-> "none",      \* the line held by the running call's local
    drive    |-> "z",         \* what the endpoint drives on the line
    fallible |-> canFail,     \* whether the pin's HAL calls can return Err
    pc       |-> "idle",
    op       |-> "none",
    wait     |-> 0,           \* delay_ms calls left in the running skip_phase
    data     |-> 0,
    mask     |-> 0,
    cnt      |-> 0,
    status   |-> FALSE,       \* EdgeDetector.status
    tmp      |-> FALSE,
    buf      |-> ZeroBuf,
    size     |-> 0,
    gi       |-> 0,
    ret      |-> "none",
    retval   |-> <<>>,
    polled   |-> FALSE,       \* the poll loop has seen the line as it is now
    \* ---- what follows records what happened; no handler reads it
    obs      |-> <<>>,        \* results of the call's explicit samples
    ndelay   |-> 0,           \* delay_ms calls of the call (read: since the edge)
    touched  |-> FALSE,       \* the call has read or driven the line
    pulses   |-> <<>>,        \* <<level, units>> of each set_low / set_high
    wfail    |-> FALSE,       \* a set_low / set_high of the call failed
    rlog     |-> <<>>,        \* results of the read calls of the running get
    heard    |-> <<>>,        \* bits the peer began while the call was in read
    seen     |-> "low",       \* level the detector last got from the pin
    pollrec  |-> NoPoll,      \* the last risig_edge call
    startHeld|-> FALSE,       \* the slot held the line when the call began
    broken   |-> "no",        \* a write/read has returned IO: "fresh", "old"
    shifted  |-> <<>>,        \* the bits the running read has shifted in
    observed |-> "none",      \* level the detector's pin last gave, to anyone
    built    |-> "none",      \* what the pin gave EdgeDetector::new
    was      |-> FALSE,       \* status before the last risig_edge call
    waited   |-> FALSE,       \* time has passed since the last call returned
    sawStart |-> -1,          \* stream_request ran in the start condition of
                              \* the peer's write of this byte (-1: it did not)
    duringTx |-> FALSE,       \* the call began while the peer was transmitting
    calls    |-> "none",      \* calls begun so far: "none", "one", "more"
    prevByte |-> -1,          \* the byte of the write that returned Ok right
                              \* before the running call began (-1: none did)
    probed   |-> -1 ]         \* sawStart of the stream_request that returned
                              \* Ok right before the running call began

Put(e, s) == [ep EXCEPT ![e] = s]

\* every endpoint learns that the line's level may have changed
Settle(E, x) ==
  [e \in Procs |->
     IF Level(E, x) = Level(ep, ext) THEN E[e]
     ELSE [E[e] EXCEPT !.polled = FALSE]]

\* a call begins: the call's locals and its records start afresh
Begin(s, name) ==
  [s EXCEPT !.op = name, !.ret = "pending", !.retval = <<>>, !.wait = 0,
            !.data = 0, !.mask = 0, !.cnt = 0, !.status = FALSE, !.tmp = FALSE,
            !.buf = ZeroBuf, !.size = 0, !.gi = 0, !.polled = FALSE,
            !.obs = <<>>, !.ndelay = 0, !.touched = FALSE, !.pulses = <<>>,
            !.wfail = FALSE, !.rlog = <<>>, !.heard = <<>>,
            !.seen = "low", !.pollrec = NoPoll,
            !.startHeld = (s.pin = "Some"),
            !.broken = IF s.broken = "no" THEN "no" ELSE "old",
            !.shifted = <<>>, !.observed = "none", !.built = "none", !.was = FALSE,
            !.waited = FALSE, !.sawStart = -1, !.duringTx = FALSE,
            !.calls = IF s.calls = "none" THEN "one" ELSE "more",
            !.prevByte = IF s.op = "write" /\ s.ret = "Ok" /\ ~s.waited
                         THEN s.data ELSE -1,
            !.probed = IF s.op = "stream_request" /\ s.ret = "Ok" /\ ~s.waited
                       THEN s.sawStart ELSE -1]

\* the call returns r with value v
Return(s, r, v) == [s EXCEPT !.pc = "idle", !.ret = r, !.retval = v, !.wait = 0]

\* a take that leaves a copy of the line in the slot
take_copy(s) == [s EXCEPT !.loc = IF s.pin = "Some" THEN "input" ELSE "none"]

\* self.pin.take()
take(s) == [s EXCEPT !.pin = "None", !.loc = IF s.pin = "Some" THEN "input" ELSE "none"]

\* a bring_back_pin that loses the line instead of storing it
bring_back_pin_lost(s) == [s EXCEPT !.loc = "none"]

bring_back_pin(s) == [s EXCEPT !.pin = "Some", !.loc = "none"]

\* an error path that puts the line back before it returns
DropLocalRestoring(s) == [s EXCEPT !.pin = "Some", !.loc = "none", !.broken = "fresh"]

\* a local that holds the line goes out of scope (the ? of io_err!)
DropLocal(s) == [s EXCEPT !.loc = "none", !.broken = "fresh"]

\* a skip_phase that is cut short once a set_low / set_high has failed
skip_phase_unless_failed(s, n) == [s EXCEPT !.wait = IF s.wfail THEN 0 ELSE n]

skip_phase(s, n) == [s EXCEPT !.wait = n]

\* one explicit sample of the line, with result r
Sampled(s, r) == [s EXCEPT !.obs = Append(@, <<r, s.ndelay>>), !.touched = TRUE]

into_output(s) == [s EXCEPT !.loc = "output"]

into_input(s) == [s EXCEPT !.loc = "input", !.drive = "z"]

\* pin.set_low().ok() / pin.set_high().ok(): a failed call leaves the pin's
\* drive as it was
set_level(s, lv, ok) ==
  [s EXCEPT !.drive = IF ok THEN lv ELSE @,
            !.pulses = Append(@, <<lv, 0>>),
            !.wfail = @ \/ ~ok,
            !.touched = TRUE]

\* some peer of e is transmitting: it is past the beginning of its start
\* condition and before the end of the low phase of its eighth bit
PeerTx(e) ==
  \E p \in Procs \ {e} :
    \/ ep[p].pc = "w_fall"
    \/ ep[p].pc = "w_bit" /\ (ep[p].cnt < NBits \/ ep[p].wait > 0)

\* the byte of the write whose start condition a peer of e is driving, or -1
PeerStart(e) ==
  IF \E p \in Procs \ {e} : ep[p].pc = "w_bit" /\ ep[p].cnt = 0
  THEN ep[CHOOSE p \in Procs \ {e} : ep[p].pc = "w_bit" /\ ep[p].cnt = 0].data
  ELSE -1

\* ------------------------------------------------------------------- write

\* a write that does not look whether take() gave the line
WriteCallUnchecked(e, b) ==
  /\ ep[e].pc = "idle"
  /\ ep' = Put(e, [take(Begin(ep[e], "write")) EXCEPT !.data = b, !.pc = "w_check1"])
  /\ UNCHANGED <<ext, envLeft>>

WriteCall(e, b) ==
  /\ ep[e].pc = "idle"
  /\ LET s0 == [Begin(ep[e], "write") EXCEPT !.duringTx = PeerTx(e)]
         s1 == [take(s0) EXCEPT !.data = b]
     IN  ep' = Put(e, IF s0.pin = "None"
                      THEN Return(s0, "Unavailable", <<>>)
                      ELSE [s1 EXCEPT !.pc = "w_check1"])
  /\ UNCHANGED <<ext, envLeft>>

\* the busy check of write: one is_low sample r
BusyCheck(s, r, next) ==
  IF r = "err" THEN Return(DropLocal(Sampled(s, r)), "IO", <<>>)
  ELSE IF r = "low" THEN Return(bring_back_pin(Sampled(s, r)), "Busy", <<>>)
  ELSE next

WriteCheck1(e) ==
  /\ ep[e].pc = "w_check1"
  /\ \E r \in PinReads(ep[e]) :
       ep' = Put(e, BusyCheck(ep[e], r,
                  [skip_phase(Sampled(ep[e], r), BusyGap) EXCEPT !.pc = "w_check2"]))
  /\ UNCHANGED <<ext, envLeft>>

\* the second busy check
WriteCheck2(e) ==
  /\ ep[e].pc = "w_check2"
  /\ ep[e].wait = 0
  /\ \E r \in PinReads(ep[e]) :
       ep' = Put(e, BusyCheck(ep[e], r, [Sampled(ep[e], r) EXCEPT !.pc = "w_start"]))
  /\ UNCHANGED <<ext, envLeft>>

\* the start condition: the line becomes an output and is driven low
WriteStart(e) ==
  /\ ep[e].pc = "w_start"
  /\ \E ok \in PinWrites(ep[e]), first \in {"low", "high"} :
       \* first: the level an output pin drives when into_output makes it
       /\ ok => first = "low"
       /\ LET s2 == [into_output(ep[e]) EXCEPT !.drive = first]
              s3 == skip_phase(set_level(s2, "low", ok), StartLow)
          IN  ep' = Settle(Put(e, [s3 EXCEPT !.mask = TopBit, !.cnt = 0, !.pc = "w_bit"]), ext)
  /\ UNCHANGED <<ext, envLeft>>

\* the peers that are inside read hear that a bit began
Hears(E, e, bit) ==
  [p \in Procs |->
     IF p # e /\ E[p].pc \in {"r_poll", "r_s1", "r_s2"}
     THEN [E[p] EXCEPT !.heard = Append(@, bit)]
     ELSE E[p]]

\* a bit test that walks the byte from its least significant bit
bit_is_one_lsb(s) == BitAnd(s.data, 2 ^ s.cnt) # 0

\* if data & mask != 0
bit_is_one(s) == BitAnd(s.data, s.mask) # 0

\* the high phase of one bit
WriteBitHigh(e) ==
  /\ ep[e].pc = "w_bit"
  /\ ep[e].wait = 0
  /\ ep[e].cnt < NBits
  /\ \E ok \in PinWrites(ep[e]) :
       LET s    == ep[e]
           one  == bit_is_one(s)
           s1   == skip_phase(set_level(s, "high", ok), IF one THEN OneHigh ELSE ZeroHigh)
       IN  ep' = Settle(Hears(Put(e, [s1 EXCEPT !.pc = "w_fall"]), e, BoolU8(one)), ext)
  /\ UNCHANGED <<ext, envLeft>>

\* the low phase of one bit, and the end of the loop body
WriteBitLow(e) ==
  /\ ep[e].pc = "w_fall"
  /\ ep[e].wait = 0
  /\ \E ok \in PinWrites(ep[e]) :
       LET s    == ep[e]
           one  == bit_is_one(s)
           s1   == skip_phase(set_level(s, "low", ok), IF one THEN OneLow ELSE ZeroLow)
       IN  ep' = Settle(Put(e, [s1 EXCEPT !.mask = Shr8(s.mask), !.cnt = s.cnt + 1,
                                          !.pc = "w_bit"]), ext)
  /\ UNCHANGED <<ext, envLeft>>

WriteFinish(e) ==
  /\ ep[e].pc = "w_bit"
  /\ ep[e].wait = 0
  /\ ep[e].cnt = NBits
  /\ ep' = Settle(Put(e, Return(bring_back_pin(into_input(ep[e])), "Ok", <<>>)), ext)
  /\ UNCHANGED <<ext, envLeft>>

write(e) ==
  \/ WriteCheck1(e)
  \/ WriteCheck2(e)
  \/ WriteStart(e)
  \/ WriteBitHigh(e)
  \/ WriteBitLow(e)
  \/ WriteFinish(e)

\* -------------------------------------------------------------------- read

\* a detector that starts from a high level whatever the pin gave
EdgeDetector_new_high(s, r) ==
  [s EXCEPT !.status = TRUE,
            !.seen = IF r = "err" THEN "low" ELSE r,
            !.observed = IF r = "err" THEN "none" ELSE r,
            !.built = r,
            !.touched = TRUE]

\* EdgeDetector::new with r what pin.is_high() gave
EdgeDetector_new(s, r) ==
  [s EXCEPT !.status = (r = "high"),
            !.seen = IF r = "err" THEN "low" ELSE r,
            !.observed = IF r = "err" THEN "none" ELSE r,
            !.built = r,
            !.touched = TRUE]

\* what EdgeDetector::risig_edge returns when pin.is_high() gave r
risig_edge_result(s, r) ==
  IF r = "err" THEN FALSE
  ELSE IF (r = "high") = s.status THEN FALSE
  ELSE (r = "high")

\* a risig_edge that takes a failed read for a low level
risig_edge_errlow(s, r) ==
  [s EXCEPT !.status = IF (r = "high") = s.status THEN @ ELSE (r = "high"),
            !.seen = IF r = "err" THEN @ ELSE r,
            !.observed = IF r = "err" THEN @ ELSE r,
            !.was = s.status,
            !.pollrec = [prev |-> s.seen, cur |-> r, edge |-> risig_edge_result(s, r)],
            !.touched = TRUE]

\* a risig_edge that tracks the level only when it rises
risig_edge_onlyrise(s, r) ==
  [s EXCEPT !.status = IF r = "high" THEN TRUE ELSE @,
            !.seen = IF r = "err" THEN @ ELSE r,
            !.observed = IF r = "err" THEN @ ELSE r,
            !.was = s.status,
            !.pollrec = [prev |-> s.seen, cur |-> r, edge |-> risig_edge_result(s, r)],
            !.touched = TRUE]

\* what EdgeDetector::risig_edge leaves in the detector
risig_edge(s, r) ==
  [s EXCEPT !.status = IF r = "err" \/ (r = "high") = s.status THEN @ ELSE (r = "high"),
            !.seen = IF r = "err" THEN @ ELSE r,
            !.observed = IF r = "err" THEN @ ELSE r,
            !.was = s.status,
            !.pollrec = [prev |-> s.seen, cur |-> r, edge |-> risig_edge_result(s, r)],
            !.touched = TRUE]

\* an exit test that looks at the first sample instead of the second
terminator_first(s, r) == s.tmp

\* the loop's exit test on the second sample r: if io_err!(ed.is_high())? { break; }
terminator(s, r) == r = "high"

\* EdgeDetector::is_high gave r: a pass-through to the pin
is_high(s, r) == [Sampled(s, r) EXCEPT !.observed = IF r = "err" THEN @ ELSE r]

\* self.pin = Some(ed.release())
release_detector(s) == [s EXCEPT !.pin = "Some", !.loc = "none"]

\* a shift_in that forgets the shift
shift_in_noshift(data, tmp) == BitOr(data, BoolU8(tmp))

\* data <<= 1; data |= tmp as u8
shift_in(data, tmp) == BitOr(Shl8(data), BoolU8(tmp))

\* a get that stores every byte at index 0
get_after_read_first(s, r, v) ==
  IF r # "Ok" THEN Return(s, r, <<>>)
      ELSE LET s2 == [s EXCEPT !.buf = [@ EXCEPT ![0] = v], !.gi = s.gi + 1]
           IN  IF s2.gi < s2.size
               THEN [s2 EXCEPT !.pc = "r_enter"]
               ELSE Return(s2, "Ok", [i \in 1 .. s2.size |-> s2.buf[i - 1]])

\* get's loop body after self.read(delay) gave r (with byte v when r is Ok)
get_after_read(s, r, v) ==
  IF r # "Ok" THEN Return(s, r, <<>>)
      ELSE LET s2 == [s EXCEPT !.buf = [@ EXCEPT ![s.gi] = v], !.gi = s.gi + 1]
           IN  IF s2.gi < s2.size
               THEN [s2 EXCEPT !.pc = "r_enter"]
               ELSE Return(s2, "Ok", [i \in 1 .. s2.size |-> s2.buf[i - 1]])

\* read returns r: to its caller, or to get
ReadReturn(s, r, v) ==
  IF s.op = "get" THEN get_after_read([s EXCEPT !.rlog = Append(@, <<r, v>>)], r, v)
  ELSE Return(s, r, IF r = "Ok" THEN <<v>> ELSE <<>>)

ReadCall(e) ==
  /\ ep[e].pc = "idle"
  /\ ep' = Put(e, [Begin(ep[e], "read") EXCEPT !.pc = "r_enter"])
  /\ UNCHANGED <<ext, envLeft>>

\* read up to its loop: take the line and wrap it in an EdgeDetector
ReadEnter(e) ==
  /\ ep[e].pc = "r_enter"
  /\ \E r \in PinReads(ep[e]) :
       LET s  == ep[e]
           s1 == [take(s) EXCEPT !.data = 0, !.tmp = FALSE, !.polled = FALSE,
                                 !.obs = <<>>, !.ndelay = 0, !.shifted = <<>>,
                                 !.pollrec = NoPoll]
       IN  /\ s.pin = "None" => r = LineNow
           /\ ep' = Put(e, IF s.pin = "None"
                           THEN ReadReturn(s, "Unavailable", 0)
                           ELSE [EdgeDetector_new(s1, r) EXCEPT !.pc = "r_poll"])
  /\ UNCHANGED <<ext, envLeft>>

\* one turn of read's loop: if ed.risig_edge() { self.skip_phase(delay, 3); ...
ReadPoll(e) ==
  /\ ep[e].pc = "r_poll"
  /\ ~ep[e].polled
  /\ \E r \in PinReads(ep[e]) :
       LET s  == ep[e]
           s1 == risig_edge(s, r)
       IN  ep' = Put(e, IF risig_edge_result(s, r)
                        THEN [skip_phase(s1, SampleGap)
                                EXCEPT !.pc = "r_s1", !.obs = <<>>, !.ndelay = 0]
                        ELSE [s1 EXCEPT !.polled = TRUE])
  /\ UNCHANGED <<ext, envLeft>>

\* let tmp = io_err!(ed.is_high())?; self.skip_phase(delay, 3);
ReadSample1(e) ==
  /\ ep[e].pc = "r_s1"
  /\ ep[e].wait = 0
  /\ \E r \in PinReads(ep[e]) :
       LET s1 == is_high(ep[e], r)
       IN  ep' = Put(e, IF r = "err"
                        THEN ReadReturn(DropLocal(s1), "IO", 0)
                        ELSE [skip_phase(s1, SampleGap)
                                EXCEPT !.tmp = (r = "high"), !.pc = "r_s2"])
  /\ UNCHANGED <<ext, envLeft>>

\* if io_err!(ed.is_high())? { break; } else { data <<= 1; data |= tmp as u8; }
ReadSample2(e) ==
  /\ ep[e].pc = "r_s2"
  /\ ep[e].wait = 0
  /\ \E r \in PinReads(ep[e]) :
       LET s1 == is_high(ep[e], r)
       IN  ep' = Put(e, IF r = "err"
                        THEN ReadReturn(DropLocal(s1), "IO", 0)
                        ELSE IF terminator(s1, r)
                        THEN ReadReturn(release_detector(s1), "Ok", s1.data)
                        ELSE [s1 EXCEPT !.data = shift_in(s1.data, s1.tmp),
                                        !.shifted = Append(@, BoolU8(s1.tmp)),
                                        !.pc = "r_poll", !.polled = FALSE])
  /\ UNCHANGED <<ext, envLeft>>

read(e) ==
  \/ ReadEnter(e)
  \/ ReadPoll(e)
  \/ ReadSample1(e)
  \/ ReadSample2(e)

\* --------------------------------------------------------------------- get

\* get::<U>() with size_of::<U>() = n; its read calls are the read actions
GetCall(e, n) ==
  /\ ep[e].pc = "idle"
  /\ ep' = Put(e, [Begin(ep[e], "get") EXCEPT !.size = n, !.gi = 0,
                                              !.buf = ZeroBuf, !.pc = "r_enter"])
  /\ UNCHANGED <<ext, envLeft>>

\* ------------------------------------------------- stream_request, release

\* a stream_request that takes a high line for the peer's start condition
stream_request_held_inverted(s, r) ==
  LET s1 == Sampled(s, r)
  IN  IF r = "err" THEN Return(s1, "IO", <<>>)
      ELSE IF r = "low" THEN [skip_phase(s1, 1) EXCEPT !.pc = "s_noresponse"]
      ELSE Return(s1, "Ok", <<>>)

\* a stream_request that takes the line out of the slot while it waits
stream_request_held_taking(s, r) ==
  LET s1 == Sampled(s, r)
  IN  IF r = "err" THEN Return(s1, "IO", <<>>)
      ELSE IF r = "high" THEN [skip_phase(take(s1), 1) EXCEPT !.pc = "s_noresponse"]
      ELSE Return(s1, "Ok", <<>>)

\* stream_request when the slot holds the line and pin.is_high() gave r
stream_request_held(s, r) ==
  LET s1 == Sampled(s, r)
  IN  IF r = "err" THEN Return(s1, "IO", <<>>)
      ELSE IF r = "high" THEN [skip_phase(s1, 1) EXCEPT !.pc = "s_noresponse"]
      ELSE Return(s1, "Ok", <<>>)

StreamRequestCall(e) ==
  /\ ep[e].pc = "idle"
  /\ \E r \in PinReads(ep[e]) :
       LET s0 == [Begin(ep[e], "stream_request") EXCEPT !.sawStart = PeerStart(e)]
       IN  /\ s0.pin = "None" => r = LineNow
           /\ ep' = Put(e, IF s0.pin = "None"
                           THEN [skip_phase(s0, 1) EXCEPT !.pc = "s_unavailable"]
                           ELSE stream_request_held(s0, r))
  /\ UNCHANGED <<ext, envLeft>>

StreamRequestReturn(e) ==
  /\ ep[e].pc \in {"s_unavailable", "s_noresponse"}
  /\ ep[e].wait = 0
  /\ ep' = Put(e, Return(ep[e], IF ep[e].pc = "s_noresponse" THEN "NoResponse"
                                ELSE "Unavailable", <<>>))
  /\ UNCHANGED <<ext, envLeft>>

stream_request(e) ==
  \/ StreamRequestCall(e)
  \/ StreamRequestReturn(e)

\* release consumes the owner: no call follows it
release(e) ==
  /\ ep[e].pc = "idle"
  /\ LET s0 == Begin(ep[e], "release")
         s1 == take(s0)
     IN  ep' = Put(e, IF s0.pin = "None"
                      THEN [Return(s1, "Unavailable", <<>>) EXCEPT !.pc = "gone"]
                      ELSE [Return(s1, "Ok", <<>>) EXCEPT !.pc = "gone", !.loc = "caller"])
  /\ UNCHANGED <<ext, envLeft>>

\* -------------------------------------------------------------------- time

InDelay(s) == s.wait > 0

\* may a delay unit pass for endpoint record s
CanWait(s) ==
  \/ s.pc = "idle"
  \/ s.pc = "gone"
  \/ InDelay(s)
  \/ s.pc = "r_poll" /\ s.polled

\* delay.delay_ms(self.delay) returns
delay_ms(s) ==
  IF InDelay(s)
  THEN [s EXCEPT !.wait = @ - 1,
                 !.ndelay = @ + 1,
                 !.pulses = IF s.loc = "output" /\ Len(@) > 0
                            THEN [@ EXCEPT ![Len(@)] = <<@[1], @[2] + 1>>]
                            ELSE @]
  ELSE [s EXCEPT !.polled = FALSE,
                 !.waited = @ \/ (s.pc = "idle" /\ s.op # "none")]

Tick ==
  /\ \A e \in Procs : CanWait(ep[e])
  /\ ep' = [e \in Procs |-> delay_ms(ep[e])]
  /\ ep' # ep
  /\ UNCHANGED <<ext, envLeft>>

\* the external peer changes what it drives
EnvSet ==
  /\ envLeft > 0
  /\ envLeft' = envLeft - 1
  /\ ext' = IF ext = "low" THEN "z" ELSE "low"
  /\ ep' = Settle(ep, ext')

\* ---------------------------------------------------------- specifications

Init ==
  /\ \E f \in BOOLEAN : ep = [e \in Procs |-> new(e = 1 /\ f)]
  /\ ext \in {"z", "low"}
  /\ envLeft = MaxEnv

\* one owner against an arbitrary peer
Next ==
  \/ \E b \in SpecBytes : WriteCall(1, b)
  \/ write(1)
  \/ ReadCall(1)
  \/ read(1)
  \/ \E n \in 1 .. MaxSize : GetCall(1, n)
  \/ stream_request(1)
  \/ release(1)
  \/ Tick
  \/ EnvSet

Spec == Init /\ [][Next]_vars

\* endpoint 1 runs one write, endpoint 2 one read, on a line nobody else drives
InitRT ==
  /\ ep = [e \in Procs |-> new(FALSE)]
  /\ ext = "z"
  /\ envLeft = 0

NextRT ==
  \/ ep[1].op = "none" /\ \E b \in Byte : WriteCall(1, b)
  \/ write(1)
  \/ ep[2].op = "none" /\ ReadCall(2)
  \/ read(2)
  \/ Tick

SpecRT == InitRT /\ [][NextRT]_vars

\* endpoint 1 runs up to two writes, endpoint 2 reads; nobody else drives
NextLink ==
  \/ ep[1].calls # "more" /\ \E b \in LinkBytes : WriteCall(1, b)
  \/ write(1)
  \/ ReadCall(2)
  \/ read(2)
  \/ \E n \in 1 .. MaxSize : GetCall(2, n)
  \/ stream_request(2)
  \/ Tick

SpecLink == InitRT /\ [][NextLink]_vars

\* both endpoints write, each once; nobody else drives
NextBus ==
  \/ \E e \in Procs : ep[e].calls = "none" /\ \E b \in LinkBytes : WriteCall(e, b)
  \/ \E e \in Procs : write(e)
  \/ Tick

SpecBus == InitRT /\ [][NextBus]_vars

\* ------------------------------------------------------------------ claims

Returned(s) == s.pc \in {"idle", "gone"} /\ s.op # "none"

\* the bits of byte b, most significant first
BitsOf(b) == [i \in 1 .. 8 |-> (b \div (2 ^ (8 - i))) % 2]

\* C1 (SpecRT): round trip.  A read that began before the first bit of the
\* peer's write(b) (it heard the peer begin each of the 8 bits of b) returns
\* Ok(b); and once that write has returned, such a read is never left waiting
\* in its poll loop: it has caught the rising edge the released line makes, is
\* at its two samples, or has returned.
C1_RoundTrip ==
  LET w == ep[1]
      r == ep[2]
      listening == r.op = "read" /\ r.startHeld /\ r.heard = BitsOf(w.data)
  IN  /\ (listening /\ Returned(r)) => (r.ret = "Ok" /\ r.retval = <<w.data>>)
      /\ (listening /\ Returned(w) /\ w.ret = "Ok" /\ ~Returned(r))
           => (r.pc \in {"r_s1", "r_s2"} \/ (r.pc = "r_poll" /\ ~r.polled))

C1_Witness ==
  /\ ep[1].data = 165 /\ ep[1].ret = "Ok"
  /\ ep[2].pc = "idle" /\ ep[2].ret = "Ok" /\ ep[2].retval = <<165>>
  /\ ep[2].heard = BitsOf(165) /\ ep[2].ndelay = 6

\* C2 (Spec): every write, read or get that starts with the slot holding the
\* line returns with the slot holding the line again.
C2_Composition ==
  \A e \in Procs :
    (Returned(ep[e]) /\ ep[e].op \in {"write", "read", "get"} /\ ep[e].startHeld)
      => (ep[e].pin = "Some" /\ ep[e].loc = "none")

\* C3 (Spec): a write that sees the line low at its first busy check (before
\* any delay) or at its second (4 delay units later) returns Busy with the line
\* back in the slot in input capability; no write goes on after a low sample.
C3_Busy ==
  \A e \in Procs :
    LET s == ep[e] IN
    s.op = "write" =>
      /\ Len(s.obs) <= 2
      /\ (Len(s.obs) >= 1 => s.obs[1][2] = 0)
      /\ (Len(s.obs) >= 2 => s.obs[2][2] = 4)
      /\ (\E i \in DOMAIN s.obs : s.obs[i][1] = "low")
           => (s.pc = "idle" /\ s.ret = "Busy" /\ s.pin = "Some" /\ s.loc = "none"
               /\ s.drive = "z" /\ s.pulses = <<>>)

C3_Witness ==
  /\ ep[1].op = "write" /\ ep[1].ret = "Busy"
  /\ ep[1].obs = << <<"high", 0>>, <<"low", 4>> >>

\* C4 (Spec): with the slot empty, write, read, get, stream_request and release
\* return Unavailable, neither read nor drive the line, and leave the slot empty.
C4_Unavailable ==
  \A e \in Procs :
    LET s == ep[e] IN
    (s.op \in {"write", "read", "get", "stream_request", "release"} /\ ~s.startHeld)
      => /\ s.pin = "None" /\ s.loc = "none" /\ s.drive = "z"
         /\ ~s.touched /\ s.obs = <<>> /\ s.pulses = <<>>
         /\ s.ret \in {"pending", "Unavailable"}
         /\ Returned(s) => s.ret = "Unavailable"

C4_Witness ==
  /\ ep[1].op = "write" /\ ~ep[1].startHeld
  /\ ep[1].pc = "idle" /\ ep[1].ret = "Unavailable"

\* C5 (Spec): on an owner that holds the line, stream_request returns Ok iff
\* the line read low, NoResponse iff it read high, then after exactly one
\* delay unit, and IO iff the level read failed.
C5_StreamRequest ==
  \A e \in Procs :
    LET s == ep[e] IN
    (s.op = "stream_request" /\ s.startHeld) =>
      /\ Len(s.obs) = 1
      /\ s.pin = "Some"
      /\ s.pc = "s_noresponse" => (s.obs[1][1] = "high" /\ s.ret = "pending")
      /\ Returned(s) =>
           /\ s.ret = "Ok" <=> s.obs[1][1] = "low"
           /\ s.ret = "NoResponse" <=> s.obs[1][1] = "high"
           /\ s.ret = "IO" <=> s.obs[1][1] = "err"
           /\ s.ndelay = IF s.ret = "NoResponse" THEN 1 ELSE 0

C5_Witness ==
  /\ ep[1].op = "stream_request" /\ ep[1].startHeld /\ ep[1].pc = "idle"
  /\ ep[1].ret = "NoResponse" /\ ep[1].ndelay = 1

\* what write(b) is to drive: the start condition, then the 8 bit cells
RECURSIVE BitCells(_, _)
BitCells(b, i) ==
  IF i > 8 THEN <<>>
  ELSE (IF BitsOf(b)[i] = 1 THEN << <<"high", 4>>, <<"low", 4>> >>
                            ELSE << <<"high", 2>>, <<"low", 6>> >>)
       \o BitCells(b, i + 1)

ExpectedPulses(b) == << <<"low", 4>> >> \o BitCells(b, 1)

\* C6 (SpecRT): a write(b) whose two busy checks read high drives low for 4
\* units, then per bit, most significant first, high 4 and low 4 units for a 1
\* and high 2 and low 6 units for a 0: 8 bit cells of 8 units; then the line is
\* back in the slot in input capability and write returns Ok.
C6_Pulses ==
  \A e \in Procs :
    LET s == ep[e] IN
    (s.op = "write" /\ Returned(s) /\ ~s.wfail
       /\ s.obs = << <<"high", 0>>, <<"high", 4>> >>)
      => /\ s.ret = "Ok"
         /\ s.pulses = ExpectedPulses(s.data)
         /\ Len(s.pulses) = 17
         /\ s.ndelay = 72
         /\ s.pin = "Some" /\ s.loc = "none" /\ s.drive = "z"

C6_Witness ==
  /\ ep[1].op = "write" /\ ep[1].pc = "idle" /\ ep[1].ret = "Ok" /\ ep[1].data = 160
  /\ ep[1].pulses = << <<"low", 4>>,
                       <<"high", 4>>, <<"low", 4>>, <<"high", 2>>, <<"low", 6>>,
                       <<"high", 4>>, <<"low", 4>>, <<"high", 2>>, <<"low", 6>>,
                       <<"high", 2>>, <<"low", 6>>, <<"high", 2>>, <<"low", 6>>,
                       <<"high", 2>>, <<"low", 6>>, <<"high", 2>>, <<"low", 6>> >>

\* C7 (Spec): get for n bytes stores the k-th byte its read calls return at
\* buffer index k-1; it returns Ok after exactly n successful reads, its value
\* the first n buffer bytes in read order; when the k-th read fails it returns
\* that error at once, with only the first k-1 buffer bytes written.
C7_Get ==
  \A e \in Procs :
    LET s  == ep[e]
        n  == Len(s.rlog)
        ok == {k \in 1 .. n : s.rlog[k][1] = "Ok"}
    IN
    s.op = "get" =>
      /\ n <= s.size
      /\ \A k \in 1 .. n : k < n => k \in ok
      /\ \A k \in ok : s.buf[k - 1] = s.rlog[k][2]
      /\ \A j \in 0 .. (BUF_SIZE - 1) : (j + 1) \notin ok => s.buf[j] = 0
      /\ Returned(s) =>
           /\ n >= 1
           /\ s.ret = s.rlog[n][1]
           /\ s.ret = "Ok" => (n = s.size /\ s.retval = [k \in 1 .. n |-> s.rlog[k][2]])
      /\ ~Returned(s) => ok = 1 .. n

C7_Witness ==
  /\ ep[1].op = "get" /\ ep[1].pc = "idle" /\ ep[1].size = 2
  /\ ep[1].ret = "Ok" /\ ep[1].retval = <<1, 0>>

\* C8 (Spec): risig_edge returns true exactly on the polls that get a high
\* level after the detector last got a low one (at its construction, where a
\* failed read counts as low, or at an earlier poll), and false on every other.
C8_RisingEdge ==
  \A e \in Procs :
    LET p == ep[e].pollrec IN
    p # NoPoll => (p.edge <=> (p.prev = "low" /\ p.cur = "high"))

C8_Witness ==
  /\ ep[1].pollrec = [prev |-> "low", cur |-> "high", edge |-> TRUE]
  /\ ep[1].pc = "r_s1" /\ ep[1].data = 1

C10_Lost ==
  \A e \in Procs :
    LET s == ep[e] IN
    /\ (s.op \in {"write", "read", "get"} /\ Returned(s) /\ s.ret = "IO")
         => (s.broken = "fresh" /\ s.obs[Len(s.obs)][1] = "err")
    /\ s.broken # "no" => (s.pin = "None" /\ s.loc = "none")
    /\ s.broken = "old" => (~s.startHeld /\ s.ret \in {"pending", "Unavailable"})
    /\ (s.broken = "old" /\ Returned(s)) => s.ret = "Unavailable"

C10_Witness ==
  /\ ep[1].broken = "old" /\ ep[1].op = "release" /\ ep[1].ret = "Unavailable"

\* the number whose binary digits are q[i], q[i+1], ..., the last one lowest
RECURSIVE DigitsFrom(_, _)
DigitsFrom(q, i) ==
  IF i > Len(q) THEN 0 ELSE q[i] * (2 ^ (Len(q) - i)) + DigitsFrom(q, i + 1)

\* the byte made of the last 8 bits of q (of all of q when it has fewer)
Last8(q) == DigitsFrom(q, IF Len(q) > 8 THEN Len(q) - 7 ELSE 1)

\* C11 (SpecLink): read's byte starts at 0; each detected edge is followed by
\* a sample 3 units later (tmp) and one 6 units later; when the second reads
\* low the byte becomes (byte * 2 mod 256) + tmp, when it reads high read
\* returns Ok(byte).  Nothing counts the bits: after more than 8 of them the
\* byte is the last 8 sampled bits, the earliest of those highest.
C11_Read ==
  \A e \in Procs :
    LET s == ep[e]
        n == Len(s.shifted)
    IN
    /\ (s.op \in {"read", "get"} /\ s.pc \in {"r_poll", "r_s1", "r_s2"})
         => /\ s.data = Last8(s.shifted)
            /\ (s.pc = "r_poll" /\ Len(s.obs) = 2)
                 => /\ n > 0
                    /\ s.obs[1][2] = 3
                    /\ s.obs[2] = <<"low", 6>>
                    /\ s.shifted[n] = BoolU8(s.obs[1][1] = "high")
    /\ (s.op = "read" /\ Returned(s) /\ s.ret = "Ok")
         => (s.retval = <<Last8(s.shifted)>> /\ s.obs[2] = <<"high", 6>>)
    /\ (s.op = "get" /\ s.pc \in {"r_enter", "idle"} /\ Len(s.rlog) > 0
          /\ s.rlog[Len(s.rlog)][1] = "Ok")
         => s.rlog[Len(s.rlog)][2] = Last8(s.shifted)

C11_Witness ==
  /\ ep[2].op = "read" /\ ep[2].pc = "idle" /\ ep[2].ret = "Ok"
  /\ ep[2].shifted = BitsOf(255) \o <<1>> \o BitsOf(165)
  /\ ep[2].retval = <<165>>

\* C12 (Spec): the line exists once: in the slot, in a running call's local,
\* or with release's caller.  Between calls no local holds it, so the slot is
\* empty or holds the line as an input.  The line is an output only inside
\* write, after both busy checks read high and before write returns, and an
\* endpoint drives the line only while its line is an output.
C12_LineSlot ==
  \A e \in Procs :
    LET s == ep[e] IN
    /\ ~(s.pin = "Some" /\ s.loc # "none")
    /\ s.pc = "idle" => s.loc = "none"
    /\ s.pc = "gone" => (s.pin = "None" /\ s.loc \in {"none", "caller"})
    /\ s.loc = "output"
         => /\ s.op = "write" /\ s.ret = "pending" /\ s.pc \in {"w_bit", "w_fall"}
            /\ s.obs = << <<"high", 0>>, <<"high", 4>> >>
    /\ s.drive # "z" => s.loc = "output"

C12_Witness ==
  /\ ep[1].loc = "output" /\ ep[1].pin = "None" /\ ep[1].pc = "w_fall"
  /\ ep[1].drive = "high" /\ ep[1].cnt = 7

\* C13 (Spec): in every state of a running read the detector's status is the
\* level its pin last gave, whether EdgeDetector::new, risig_edge or is_high
\* asked for it.
C13_Tracked ==
  \A e \in Procs :
    LET s == ep[e] IN
    (s.op \in {"read", "get"} /\ s.pc \in {"r_poll", "r_s1", "r_s2"}
       /\ s.observed # "none")
      => (s.status <=> s.observed = "high")

\* C14 (Spec): stream_request leaves the owner as it found it: in every state
\* of the call and after each of its returns (Ok, NoResponse, Unavailable, IO)
\* the slot holds the line iff it held it when the call began, no local holds
\* the line, and the line is never made an output or driven.
C14_Frame ==
  \A e \in Procs :
    LET s == ep[e] IN
    s.op = "stream_request" =>
      /\ s.pin = (IF s.startHeld THEN "Some" ELSE "None")
      /\ s.loc = "none"
      /\ s.drive = "z"
      /\ s.pulses = <<>>
      /\ ~s.wfail
      /\ s.ret \in {"pending", "Ok", "NoResponse", "Unavailable", "IO"}

C14_Witness ==
  /\ ep[1].op = "stream_request" /\ ep[1].pc = "idle" /\ ep[1].ret = "IO"
  /\ ep[1].startHeld /\ ep[1].pin = "Some"

\* C15 as stated (SpecLink): stream_request returned Ok while the peer held
\* the start condition of its write of byte b, and read was called with no
\* time passing in between; then read, when it returns after that one write,
\* returns Ok(b).
C15_AfterRequest ==
  \A e \in Procs : \A p \in Procs \ {e} :
    (ep[e].op = "read" /\ ep[e].probed >= 0 /\ ep[p].calls = "one"
       /\ Returned(ep[e]))
      => (ep[e].ret = "Ok" /\ ep[e].retval = <<ep[e].probed>>)

\* C15 as amended (SpecLink): when moreover read builds its detector while
\* the start condition still holds the line low, read returns Ok(b), and it
\* is not left waiting once the write has returned: 6 units after the writer
\* lets the line go it samples high and returns.
C15_InsideStart ==
  \A e \in Procs : \A p \in Procs \ {e} :
    LET r == ep[e]
        w == ep[p]
        inside == r.op = "read" /\ r.probed >= 0 /\ r.built = "low"
                    /\ w.calls = "one"
    IN  /\ (inside /\ Returned(r)) => (r.ret = "Ok" /\ r.retval = <<r.probed>>)
        /\ (inside /\ ~Returned(r)) => r.heard = SubSeq(BitsOf(r.probed), 1, Len(r.heard))
        /\ (inside /\ Returned(w) /\ ~Returned(r))
             => (r.pc \in {"r_s1", "r_s2"} \/ (r.pc = "r_poll" /\ ~r.polled))

C15_Witness ==
  /\ ep[2].op = "read" /\ ep[2].probed = 165 /\ ep[2].built = "low"
  /\ ep[2].pc = "idle" /\ ep[2].ret = "Ok" /\ ep[2].retval = <<165>>
  /\ ep[1].calls = "one" /\ ep[1].ret = "Ok"

\* C16 (Spec): a failing set_low or set_high changes nothing in what write
\* does.  A write whose two busy checks read high returns Ok after the same
\* delay units (4 of the start condition and 8 per bit, 68 after the second
\* busy check) spent in the same phases, with the line back in the slot as
\* an input, also when calls of set_low / set_high failed; and while it runs
\* a failure never makes it return.
C16_WriteFailures ==
  \A e \in Procs :
    LET s == ep[e] IN
    (s.op = "write" /\ s.obs = << <<"high", 0>>, <<"high", 4>> >>) =>
      /\ ~Returned(s) => s.ret = "pending"
      /\ Returned(s) =>
           /\ s.ret = "Ok"
           /\ s.ndelay = BusyGap + 68
           /\ s.pulses = ExpectedPulses(s.data)
           /\ s.pin = "Some" /\ s.loc = "none" /\ s.drive = "z"

C16_Witness ==
  /\ ep[1].op = "write" /\ ep[1].pc = "idle" /\ ep[1].ret = "Ok"
  /\ ep[1].wfail /\ ep[1].data = 160 /\ ep[1].ndelay = 72
  /\ ep[1].pin = "Some"

\* C17 (Spec): a risig_edge whose level read fails returns false and leaves
\* status as it was; read goes on polling after it, so it neither returns nor
\* yields IO there.  read returns IO only when one of the two samples after
\* an edge fails.  A failed read in EdgeDetector::new makes status false.
C17_FailedReads ==
  \A e \in Procs :
    LET s == ep[e] IN
    /\ s.pollrec.cur = "err"
         => /\ ~s.pollrec.edge
            /\ s.status = s.was
            /\ s.pc = "r_poll"
            /\ s.op = "read" => s.ret = "pending"
    /\ (s.pc = "r_poll" /\ s.built = "err" /\ s.pollrec = NoPoll) => ~s.status
    /\ (s.op = "read" /\ Returned(s) /\ s.ret = "IO")
         => /\ s.pollrec.edge /\ s.pollrec.cur = "high"
            /\ Len(s.obs) \in {1, 2}
            /\ s.obs[Len(s.obs)] = <<"err", 3 * Len(s.obs)>>

C17_Witness ==
  /\ ep[1].op = "read" /\ ep[1].pc = "r_poll" /\ ep[1].pollrec.cur = "err"
  /\ ep[1].status /\ ep[1].was /\ ep[1].built = "err" /\ LineNow = "low"

\* C18 (SpecBus): a write that is called while the peer's write is between
\* the beginning of its start condition and the end of the low phase of its
\* eighth bit never makes its line an output and never drives it, and it
\* returns Busy with the line back in the slot.
C18_BusyDuringTx ==
  \A e \in Procs :
    LET s == ep[e] IN
    (s.op = "write" /\ s.duringTx) =>
      /\ s.loc # "output" /\ s.drive = "z" /\ s.pulses = <<>>
      /\ Returned(s) => (s.ret = "Busy" /\ s.pin = "Some" /\ s.loc = "none")

\* C19 (SpecBus): two endpoints that may each call write at any time are
\* never both holding the line as an output, and never both driving it.
C19_Exclusion ==
  \A e \in Procs : \A p \in Procs \ {e} :
    ~(ep[e].loc = "output" /\ ep[p].loc = "output")

\* C20 (SpecLink): the writer calls write(b1) and, with no time passing after
\* it returns, write(b2); the reader runs get for 2 bytes and is in its first
\* read before the first bit of b1 (it has heard the writer begin every bit so
\* far).  Then get's first read returns Ok(b1) and its second Ok(b2).
C20_Framing ==
  \A e \in Procs : \A p \in Procs \ {e} :
    LET r  == ep[e]
        w  == ep[p]
        b1 == w.prevByte
        b2 == w.data
    IN
    (r.op = "get" /\ r.size = 2 /\ r.startHeld
       /\ w.op = "write" /\ w.calls = "more" /\ b1 >= 0
       /\ Len(r.heard) >= 8
       /\ r.heard = SubSeq(BitsOf(b1) \o BitsOf(b2), 1, Len(r.heard)))
      => /\ Len(r.rlog) >= 1 => r.rlog[1] = <<"Ok", b1>>
         /\ Len(r.rlog) >= 2 => r.rlog[2] = <<"Ok", b2>>
         /\ Returned(r) => (r.ret = "Ok" /\ r.retval = <<b1, b2>>)

====
